---- MODULE Spec2Model ----
(***************************************************************************)
(* A model of the CS330 scene viewer: the camera controller of             *)
(* Source/ViewManager.cpp and the texture registry of                      *)
(* Source/SceneManager.cpp.                                                *)
(*                                                                         *)
(* Units.  Floats are fixed-point integers:                                *)
(*   angles (o_yaw, o_pitch)        hundredths of a degree                 *)
(*   m_scalar, p_scalar, offsets    hundredths                             *)
(*   gDeltaTime, gLastFrame         whole seconds                          *)
(*   vectors (Position, Front, ...) thousandths                            *)
(*   sines and cosines              ten-thousandths                        *)
(***************************************************************************)
EXTENDS Integers, Sequences, FiniteSets, TLC

VARIABLES
    \* ---- ViewManager.cpp globals
    camera,                     \* *g_pCamera: Position, Front, Up, Zoom, MovementSpeed
    gLastX, gLastY,             \* last cursor position
    gFirstMouse,
    m_scalar,                   \* mouse sensitivity multiplier
    p_scalar,                   \* panning speed multiplier
    gDeltaTime, gLastFrame,
    bOrthographicProjection,
    o_camera_position,
    o_radius,
    o_yaw, o_pitch,
    bcolemak_layout,
    gkey_forward, gkey_backward, gkey_left, gkey_right,
    gkey_up, gkey_down, gkey_layout,
    windowShouldClose,          \* the GLFW window's close flag
    shader,                     \* the view, projection and viewPosition uniforms
    \* ---- observation of the last operation
    op,                         \* name of the last operation
    keysDown,                   \* keys glfwGetKey reported pressed in the last frame
    mouseOffsets,               \* offsets the last mouse event passed to the camera
    scrollArgs,                 \* offsets the last scroll event came with
    mouseArgs,                  \* cursor position the last mouse event came with,
                                \* <<>> before the first event
    toggleRun                   \* the layouts before each frame of the current run of
                                \* frames polled with only the layout key down (two at most)

viewVars == <<scrollArgs, mouseArgs, camera, gLastX, gLastY, gFirstMouse, m_scalar, p_scalar, gDeltaTime,
              gLastFrame, bOrthographicProjection, o_camera_position, o_radius,
              o_yaw, o_pitch, bcolemak_layout, gkey_forward, gkey_backward,
              gkey_left, gkey_right, gkey_up, gkey_down, gkey_layout,
              windowShouldClose, shader, op, keysDown, mouseOffsets, toggleRun>>

\* the ViewManager's own state
viewState == <<camera, gLastX, gLastY, gFirstMouse, m_scalar, p_scalar, gDeltaTime,
               gLastFrame, bOrthographicProjection, o_camera_position, o_radius,
               o_yaw, o_pitch, bcolemak_layout, gkey_forward, gkey_backward,
               gkey_left, gkey_right, gkey_up, gkey_down, gkey_layout,
               windowShouldClose, shader, keysDown, mouseOffsets, scrollArgs, mouseArgs,
               toggleRun>>

\* ---- SceneManager.cpp members, and the OpenGL texture objects
VARIABLES
    m_loadedTextures,
    m_textureIDs,               \* slot -> [ID, tag]
    glTextures,                 \* the texture names glGenTextures has handed out
    memory,                     \* "ok", or what a write outside m_textureIDs left behind
    texRet, texTag, texID,      \* the last CreateGLTexture call: result, tag given, ID made
    g_errorEncountered,
    m_objectMaterials,          \* the defined materials, in the order pushed
    boundUnits,                 \* texture unit -> the texture ID bound to it
    meshes,                     \* the basic meshes loaded
    process,                    \* "running", or "exit(1)"
    sceneShader,                \* the uniforms the SceneManager sets
    drawCalls,                  \* the draw calls of the last RenderScene, in order
    loadRets,                   \* what the CreateGLTexture calls of the last
                                \* LoadSceneTextures returned, in order
    findRet,                    \* the last FindTextureID / FindTextureSlot call a caller made
    matRet,                     \* the last FindMaterial call a caller made, itself or
                                \* through SetShaderMaterial
    printed                     \* the tags of the "Could not find texture" lines printed

\* the texture registry and the OpenGL texture objects
textureVars == <<m_loadedTextures, m_textureIDs, glTextures, memory, texRet, texTag, texID>>

\* the rest of the SceneManager's state
renderVars == <<g_errorEncountered, m_objectMaterials, boundUnits, meshes, process,
                sceneShader, drawCalls, loadRets, findRet, matRet, printed>>

sceneVars == <<textureVars, renderVars>>

vars == <<viewVars, sceneVars>>

-----------------------------------------------------------------------------
(* Bounds of the model *)

\* at most this many keys are held down during one frame
MaxKeysDown == 2
\* the clock glfwGetTime is followed up to this many seconds
MaxTime == 2
\* at most this many textures are generated without being registered
MaxLeaked == 1

\* DestroyGLTextures is not called once this many texture names are in use
MaxTextureNames == 24

\* textures registered in the specifications about lookups
MaxTextures == 4

-----------------------------------------------------------------------------
(* Program constants *)

WINDOW_WIDTH == 1000
WINDOW_HEIGHT == 800
\* o_scalar = 5.0f
o_scalar == 5
\* 360.0f and 359.9f in hundredths of a degree
Deg360 == 36000
Deg359_9 == 35990
\* 0.01f and 10.0f in hundredths
ScalarMin == 1
ScalarMax == 1000

DefaultPosition == <<0, 5000, 12000>>
DefaultFront == <<0, -500, -2000>>
DefaultUp == <<0, 1000, 0>>
WorldOrigin == <<0, 0, 0>>
WorldUp == <<0, 1000, 0>>

\* the keys the program polls
Keys == {"W", "S", "A", "D", "Q", "E", "C", "F", "R", "T", "SPACE", "P", "O", "ESCAPE"}

\* The Camera class is an external utility: what is known of it here is that
\* ProcessKeyboard moves Position and ProcessMouseMovement turns Front and Up.
\* The places it may move to and the directions it may turn to:
CameraPositions == {DefaultPosition, <<3000, 5000, 9000>>}
CameraOrientations == {[Front |-> DefaultFront, Up |-> DefaultUp],
                       [Front |-> <<1000, 0, -1000>>, Up |-> <<0, 900, 400>>]}

\* seconds that may pass between two frames
FrameDeltas == {0, 1}

\* cursor positions the window system may report
CursorXs == {500, 510}
CursorYs == {400, 390}

\* scroll offsets (hundredths) the window system may report
ScrollOffsets == {-2000, -300, 0, 200, 2000}

\* tags a texture may be registered under
TextureTags == {"desk", "deskmat"}

\* tags a material may be asked for: two that are defined, one that is not
MaterialTags == {"wood", "crt", "steel"}

-----------------------------------------------------------------------------
(* Fixed-point sine and cosine *)

TrigScale == 100 * 100
PiScaled == 31416

\* sin of an angle of 0..90 degrees (a in hundredths of a degree), by its Taylor series
SinQuadrant(a) ==
    LET x  == (a * PiScaled) \div 18000
        x2 == (x * x) \div TrigScale
        t3 == (x * x2) \div TrigScale
        t5 == ((t3 * x2) \div TrigScale) \div 120
        t7 == ((t5 * x2) \div TrigScale) \div 42
        t9 == ((t7 * x2) \div TrigScale) \div 72
    IN  x - (t3 \div 6) + t5 - t7 + t9

Sin(a) ==
    LET b == a % Deg360
    IN  IF b <= 9000 THEN SinQuadrant(b)
        ELSE IF b <= 18000 THEN SinQuadrant(18000 - b)
        ELSE IF b <= 27000 THEN 0 - SinQuadrant(b - 18000)
        ELSE 0 - SinQuadrant(Deg360 - b)

Cos(a) == Sin(a + 9000)

-----------------------------------------------------------------------------
(* ViewManager *)

\* glfwGetKey(m_pWindow, key) == GLFW_PRESS
IsPressed(keys, key) == key \in keys

\* Camera::ProcessKeyboard(direction, delta): the camera moves
CameraProcessKeyboard(cam, direction, delta, moveTo) ==
    [cam EXCEPT !.Position = moveTo]

\* Camera::ProcessMouseMovement(xOffset, yOffset): the camera turns
CameraProcessMouseMovement(cam, xOffset, yOffset, turnTo) ==
    [cam EXCEPT !.Front = turnTo.Front, !.Up = turnTo.Up]

\* a variant that wraps a negative angle to 360 instead of 359.9
WrapAngle_To360(a) ==
    LET a1 == IF a > Deg360 THEN 0 ELSE a
    IN  IF a1 < 0 THEN Deg360 ELSE a1

\* if (a > 360.0f) a = 0.0f;  if (a < 0.0f) a = 359.9f;
WrapAngle(a) ==
    LET a1 == IF a > Deg360 THEN 0 ELSE a
    IN  IF a1 < 0 THEN Deg359_9 ELSE a1

\* the step of an orbit angle: delta_scaled * o_scalar
OrbitStep(delta_scaled) == delta_scaled * o_scalar

\* a variant without the guard: the orbit camera follows the keys in both modes
OrbitEnabled_Always(s) == TRUE

\* the guard of the orbit logic: if (bOrthographicProjection)
OrbitEnabled(s) == s.bOrtho

PKE_Escape(s, keys) ==
    IF IsPressed(keys, "ESCAPE") THEN [s EXCEPT !.close = TRUE] ELSE s

PKE_Forward(s, keys, delta_scaled, moveTo) ==
    IF IsPressed(keys, s.kForward)
    THEN LET s1 == [s EXCEPT !.cam = CameraProcessKeyboard(s.cam, "FORWARD", delta_scaled, moveTo)]
         IN  IF OrbitEnabled(s1)
             THEN [s1 EXCEPT !.pitch = WrapAngle(s1.pitch + OrbitStep(delta_scaled))]
             ELSE s1
    ELSE s

PKE_Backward(s, keys, delta_scaled, moveTo) ==
    IF IsPressed(keys, s.kBackward)
    THEN LET s1 == [s EXCEPT !.cam = CameraProcessKeyboard(s.cam, "BACKWARD", delta_scaled, moveTo)]
         IN  IF OrbitEnabled(s1)
             THEN [s1 EXCEPT !.pitch = WrapAngle(s1.pitch - OrbitStep(delta_scaled))]
             ELSE s1
    ELSE s

PKE_Left(s, keys, delta_scaled, moveTo) ==
    IF IsPressed(keys, s.kLeft)
    THEN LET s1 == [s EXCEPT !.cam = CameraProcessKeyboard(s.cam, "LEFT", delta_scaled, moveTo)]
         IN  IF OrbitEnabled(s1)
             THEN [s1 EXCEPT !.yaw = WrapAngle(s1.yaw - OrbitStep(delta_scaled))]
             ELSE s1
    ELSE s

PKE_Right(s, keys, delta_scaled, moveTo) ==
    IF IsPressed(keys, s.kRight)
    THEN LET s1 == IF OrbitEnabled(s)
                   THEN [s EXCEPT !.yaw = WrapAngle(s.yaw + OrbitStep(delta_scaled))]
                   ELSE s
         IN  [s1 EXCEPT !.cam = CameraProcessKeyboard(s1.cam, "RIGHT", delta_scaled, moveTo)]
    ELSE s

PKE_Up(s, keys, delta_scaled, moveTo) ==
    IF IsPressed(keys, s.kUp)
    THEN [s EXCEPT !.cam = CameraProcessKeyboard(s.cam, "UP", delta_scaled, moveTo)]
    ELSE s

PKE_Down(s, keys, delta_scaled, moveTo) ==
    IF IsPressed(keys, s.kDown)
    THEN [s EXCEPT !.cam = CameraProcessKeyboard(s.cam, "DOWN", delta_scaled, moveTo)]
    ELSE s

\* a variant of the P branch that leaves Front and Up as the mouse turned them
PKE_Perspective_KeepsFront(s, keys) ==
    IF IsPressed(keys, "P")
    THEN [s EXCEPT !.cam = [s.cam EXCEPT !.Position = DefaultPosition], !.bOrtho = FALSE]
    ELSE s

\* key P: back to the perspective projection, camera at its original pose
PKE_Perspective(s, keys) ==
    IF IsPressed(keys, "P")
    THEN [s EXCEPT !.cam = [s.cam EXCEPT !.Position = DefaultPosition,
                                         !.Front = DefaultFront,
                                         !.Up = DefaultUp],
                   !.bOrtho = FALSE]
    ELSE s

\* a variant of the O branch that forgets the pitch
PKE_Orthographic_KeepsPitch(s, keys) ==
    IF IsPressed(keys, "O")
    THEN [s EXCEPT !.ocp = DefaultPosition, !.yaw = 0, !.bOrtho = TRUE]
    ELSE s

\* key O: to the orthographic projection, orbit camera at its default
PKE_Orthographic(s, keys) ==
    IF IsPressed(keys, "O")
    THEN [s EXCEPT !.ocp = DefaultPosition, !.yaw = 0, !.pitch = 0, !.bOrtho = TRUE]
    ELSE s

QwertyLayout == [kForward |-> "W", kBackward |-> "S", kLeft |-> "A", kRight |-> "D",
                 kUp |-> "Q", kDown |-> "E", kLayout |-> "C", colemak |-> FALSE]

ColemakLayout == [kForward |-> "F", kBackward |-> "S", kLeft |-> "R", kRight |-> "T",
                  kUp |-> "SPACE", kDown |-> "A", kLayout |-> "Q", colemak |-> TRUE]

SetLayout(s, t) ==
    [s EXCEPT !.kForward = t.kForward, !.kBackward = t.kBackward, !.kLeft = t.kLeft,
              !.kRight = t.kRight, !.kUp = t.kUp, !.kDown = t.kDown,
              !.kLayout = t.kLayout, !.colemak = t.colemak]

\* a variant whose alternate table keeps C as the layout key
PKE_Layout_KeepsToggleKey(s, keys) ==
    IF IsPressed(keys, s.kLayout)
    THEN IF s.colemak THEN SetLayout(s, QwertyLayout)
         ELSE SetLayout(s, [ColemakLayout EXCEPT !.kLayout = "C"])
    ELSE s

\* a variant that never goes back to the first table
PKE_Layout_OneWay(s, keys) ==
    IF IsPressed(keys, s.kLayout) THEN SetLayout(s, ColemakLayout) ELSE s

\* the layout key: swap the table of key codes
PKE_Layout(s, keys) ==
    IF IsPressed(keys, s.kLayout)
    THEN IF s.colemak THEN SetLayout(s, QwertyLayout) ELSE SetLayout(s, ColemakLayout)
    ELSE s

\* ViewManager::ProcessKeyboardEvents
ProcessKeyboardEvents(s, keys, deltaTime, pScalar, moveTo) ==
    LET delta_scaled == deltaTime * pScalar
        s1 == PKE_Escape(s, keys)
        s2 == PKE_Forward(s1, keys, delta_scaled, moveTo)
        s3 == PKE_Backward(s2, keys, delta_scaled, moveTo)
        s4 == PKE_Left(s3, keys, delta_scaled, moveTo)
        s5 == PKE_Right(s4, keys, delta_scaled, moveTo)
        s6 == PKE_Up(s5, keys, delta_scaled, moveTo)
        s7 == PKE_Down(s6, keys, delta_scaled, moveTo)
        s8 == PKE_Perspective(s7, keys)
        s9 == PKE_Orthographic(s8, keys)
    IN  PKE_Layout(s9, keys)

\* a variant that takes the height from the yaw
update_o_camera_position_YawHeight(yaw, pitch, radius) ==
    << (((Cos(yaw) * Cos(pitch)) \div TrigScale) * radius) \div 10,
       (Sin(yaw) * radius) \div 10,
       (((Sin(yaw) * Cos(pitch)) \div TrigScale) * radius) \div 10 >>

\* update_o_camera_position
update_o_camera_position(yaw, pitch, radius) ==
    << (((Cos(yaw) * Cos(pitch)) \div TrigScale) * radius) \div 10,
       (Sin(pitch) * radius) \div 10,
       (((Sin(yaw) * Cos(pitch)) \div TrigScale) * radius) \div 10 >>

\* g_pCamera->GetViewMatrix()
CameraViewMatrix(cam) ==
    [kind |-> "camera", eye |-> cam.Position, front |-> cam.Front, up |-> cam.Up]

\* glm::lookAt(eye, target, up)
LookAt(eye, target, up) ==
    [kind |-> "lookAt", eye |-> eye, target |-> target, up |-> up]

\* the projection chosen by PrepareSceneView
SceneProjection(bOrtho, cam) ==
    IF bOrtho = TRUE
    THEN [kind |-> "ortho", halfWidth |-> WINDOW_WIDTH * 2, halfHeight |-> WINDOW_HEIGHT * 2]
    ELSE [kind |-> "perspective", zoom |-> cam.Zoom]

\* a variant that never replaces the camera's own view
SceneView_CameraOnly(bOrtho, cam, ocp) == CameraViewMatrix(cam)

\* the view chosen by PrepareSceneView
SceneView(bOrtho, cam, ocp) ==
    IF bOrtho = TRUE
    THEN LookAt(ocp, WorldOrigin, WorldUp)
    ELSE CameraViewMatrix(cam)

\* the position of the orbit camera after the frame
SceneOrbitPosition(bOrtho, ocp, yaw, pitch, radius) ==
    IF bOrtho = TRUE THEN update_o_camera_position(yaw, pitch, radius) ELSE ocp

ViewState ==
    [cam |-> camera, bOrtho |-> bOrthographicProjection, ocp |-> o_camera_position,
     yaw |-> o_yaw, pitch |-> o_pitch, close |-> windowShouldClose,
     kForward |-> gkey_forward, kBackward |-> gkey_backward, kLeft |-> gkey_left,
     kRight |-> gkey_right, kUp |-> gkey_up, kDown |-> gkey_down,
     kLayout |-> gkey_layout, colemak |-> bcolemak_layout]

LayoutOf(s) ==
    [kForward |-> s.kForward, kBackward |-> s.kBackward, kLeft |-> s.kLeft,
     kRight |-> s.kRight, kUp |-> s.kUp, kDown |-> s.kDown,
     kLayout |-> s.kLayout, colemak |-> s.colemak]

\* ViewManager::PrepareSceneView: one frame
PrepareSceneView(keys, currentFrame, moveTo) ==
    /\ currentFrame >= gLastFrame
    /\ LET dt == currentFrame - gLastFrame
           s  == ProcessKeyboardEvents(ViewState, keys, dt, p_scalar, moveTo)
           ocp == SceneOrbitPosition(s.bOrtho, s.ocp, s.yaw, s.pitch, o_radius)
       IN  /\ gDeltaTime' = dt
           /\ gLastFrame' = currentFrame
           /\ camera' = s.cam
           /\ bOrthographicProjection' = s.bOrtho
           /\ o_yaw' = s.yaw
           /\ o_pitch' = s.pitch
           /\ o_camera_position' = ocp
           /\ windowShouldClose' = s.close
           /\ gkey_forward' = s.kForward
           /\ gkey_backward' = s.kBackward
           /\ gkey_left' = s.kLeft
           /\ gkey_right' = s.kRight
           /\ gkey_up' = s.kUp
           /\ gkey_down' = s.kDown
           /\ gkey_layout' = s.kLayout
           /\ bcolemak_layout' = s.colemak
           /\ shader' = [view |-> SceneView(s.bOrtho, s.cam, ocp),
                         projection |-> SceneProjection(s.bOrtho, s.cam),
                         viewPosition |-> s.cam.Position]
           /\ op' = "PrepareSceneView"
           /\ keysDown' = keys
           /\ toggleRun' = IF keys = {gkey_layout}
                           THEN IF toggleRun = <<>>
                                THEN <<LayoutOf(ViewState)>>
                                ELSE <<LayoutOf(ViewState), toggleRun[1]>>
                           ELSE <<>>
    /\ UNCHANGED <<gLastX, gLastY, gFirstMouse, m_scalar, p_scalar, o_radius, mouseOffsets,
                   scrollArgs, mouseArgs>>
    /\ UNCHANGED sceneVars

\* a variant without the first-event case
LastCursor_IgnoresFirst(first, last, pos) == last

\* if (gFirstMouse) { gLastX = xMousePos; gLastY = yMousePos; ... }
LastCursor(first, last, pos) == IF first THEN pos ELSE last

\* ViewManager::Mouse_Position_Callback
Mouse_Position_Callback(xMousePos, yMousePos, turnTo) ==
    LET lastX == LastCursor(gFirstMouse, gLastX, xMousePos)
        lastY == LastCursor(gFirstMouse, gLastY, yMousePos)
        xOffset == (xMousePos - lastX) * m_scalar
        yOffset == (lastY - yMousePos) * m_scalar
    IN  /\ gFirstMouse' = FALSE
        /\ gLastX' = xMousePos
        /\ gLastY' = yMousePos
        /\ camera' = CameraProcessMouseMovement(camera, xOffset, yOffset, turnTo)
        /\ mouseOffsets' = <<xOffset, yOffset>>
        /\ mouseArgs' = <<xMousePos, yMousePos>>
        /\ op' = "Mouse_Position_Callback"
        /\ UNCHANGED <<m_scalar, p_scalar, gDeltaTime, gLastFrame, bOrthographicProjection,
                       o_camera_position, o_radius, o_yaw, o_pitch, bcolemak_layout,
                       gkey_forward, gkey_backward, gkey_left, gkey_right, gkey_up,
                       gkey_down, gkey_layout, windowShouldClose, shader, keysDown,
                       toggleRun, scrollArgs>>
        /\ UNCHANGED sceneVars

\* a variant without the upper limit
ClampScalar_NoUpper(x) == IF x < ScalarMin THEN ScalarMin ELSE x

\* if (x < 0.01f) x = 0.01f;  if (x > 10.0f) x = 10.0f;
ClampScalar(x) ==
    LET x1 == IF x < ScalarMin THEN ScalarMin ELSE x
    IN  IF x1 > ScalarMax THEN ScalarMax ELSE x1

\* ViewManager::Mouse_Scroll_Wheel_Callback
Mouse_Scroll_Wheel_Callback(xOffset, yOffset) ==
    /\ m_scalar' = ClampScalar(m_scalar + yOffset)
    /\ p_scalar' = ClampScalar(p_scalar + xOffset)
    /\ scrollArgs' = <<xOffset, yOffset>>
    /\ op' = "Mouse_Scroll_Wheel_Callback"
    /\ UNCHANGED <<camera, gLastX, gLastY, gFirstMouse, gDeltaTime, gLastFrame,
                   bOrthographicProjection, o_camera_position, o_radius, o_yaw, o_pitch,
                   bcolemak_layout, gkey_forward, gkey_backward, gkey_left, gkey_right,
                   gkey_up, gkey_down, gkey_layout, windowShouldClose, shader, keysDown,
                   mouseOffsets, mouseArgs, toggleRun>>
    /\ UNCHANGED sceneVars

\* the state after the ViewManager constructor
InitView ==
    /\ camera = [Position |-> DefaultPosition, Front |-> DefaultFront, Up |-> DefaultUp,
                 Zoom |-> 80, MovementSpeed |-> 20]
    /\ gLastX = WINDOW_WIDTH \div 2
    /\ gLastY = WINDOW_HEIGHT \div 2
    /\ gFirstMouse = TRUE
    /\ m_scalar = 100
    /\ p_scalar = 100
    /\ gDeltaTime = 0
    /\ gLastFrame = 0
    /\ bOrthographicProjection = FALSE
    /\ o_camera_position = DefaultPosition
    /\ o_radius = 10
    /\ o_yaw = 0
    /\ o_pitch = 0
    /\ bcolemak_layout = FALSE
    /\ gkey_forward = "W"
    /\ gkey_backward = "S"
    /\ gkey_left = "A"
    /\ gkey_right = "D"
    /\ gkey_up = "Q"
    /\ gkey_down = "E"
    /\ gkey_layout = "C"
    /\ windowShouldClose = FALSE
    /\ shader = [view |-> "unset", projection |-> "unset", viewPosition |-> "unset"]
    /\ op = "constructor"
    /\ keysDown = {}
    /\ mouseOffsets = <<0, 0>>
    /\ scrollArgs = <<0, 0>>
    /\ mouseArgs = <<>>
    /\ toggleRun = <<>>

-----------------------------------------------------------------------------
(* SceneManager: the texture registry *)

\* m_textureIDs has 16 slots
TextureSlots == 16

\* what stbi_load may give: no image, or an image of one, three or four
\* colour channels
Images == {"none", "grey", "rgb", "rgba"}

colorChannels(image) ==
    IF image = "grey" THEN 1 ELSE IF image = "rgb" THEN 3 ELSE IF image = "rgba" THEN 4 ELSE 0

\* glGenTextures(1, &id): a name not in use
GenTexture(names) == Cardinality(names) + 1

\* the three statements that register a texture; a write to a slot that the
\* array does not have goes to the memory behind it
RegisterTexture(ids, loaded, id, tag) ==
    IF loaded \in DOMAIN ids
    THEN [ids EXCEPT ![loaded] = [ID |-> id, tag |-> tag]]
    ELSE ids

\* the registry as CreateGLTexture reads it
Registry ==
    [loaded |-> m_loadedTextures, ids |-> m_textureIDs, names |-> glTextures,
     memory |-> memory]

\* SceneManager::CreateGLTexture on a registry: the registries it may leave,
\* each with the value returned (ret) and the texture name generated (id)
CreateGLTextureOutcomes(reg, image, tag) ==
    IF image = "none"
    THEN \* Could not load image
         {[loaded |-> reg.loaded, ids |-> reg.ids, names |-> reg.names,
           memory |-> reg.memory, ret |-> FALSE, id |-> 0]}
    ELSE LET textureID == GenTexture(reg.names)
             names == reg.names \cup {textureID}
         IN  IF colorChannels(image) # 3 /\ colorChannels(image) # 4
             THEN \* Not implemented to handle image with this many channels
                  {[loaded |-> reg.loaded, ids |-> reg.ids, names |-> names,
                    memory |-> reg.memory, ret |-> FALSE, id |-> textureID]}
             ELSE IF reg.loaded \in DOMAIN reg.ids
             THEN {[loaded |-> reg.loaded + 1,
                    ids |-> RegisterTexture(reg.ids, reg.loaded, textureID, tag),
                    names |-> names, memory |-> reg.memory, ret |-> TRUE,
                    id |-> textureID]}
             ELSE \* the slot is outside the array: the write is undefined
                  \* behaviour, which either overwrites what lies behind the
                  \* array and goes on, or stops the program
                  {[loaded |-> reg.loaded + 1,
                    ids |-> RegisterTexture(reg.ids, reg.loaded, textureID, tag),
                    names |-> names, memory |-> "overwritten", ret |-> TRUE,
                    id |-> textureID],
                   [loaded |-> reg.loaded, ids |-> reg.ids, names |-> names,
                    memory |-> "crashed", ret |-> "none", id |-> textureID]}

\* the program runs, and no write has gone outside an array: from then on
\* what it does is undefined, and the model follows it no further
Running == process = "running" /\ memory = "ok"

\* SceneManager::CreateGLTexture
CreateGLTexture(image, tag) ==
    /\ Running
    /\ op' = "CreateGLTexture"
    /\ texTag' = tag
    /\ \E out \in CreateGLTextureOutcomes(Registry, image, tag) :
            /\ m_loadedTextures' = out.loaded
            /\ m_textureIDs' = out.ids
            /\ glTextures' = out.names
            /\ memory' = out.memory
            /\ texRet' = out.ret
            /\ texID' = out.id
    /\ UNCHANGED renderVars
    /\ UNCHANGED viewState

\* SceneManager::BindGLTextures: unit i gets the texture of slot i
BindGLTextures(ids, loaded) == [i \in 0 .. (loaded - 1) |-> ids[i].ID]

\* the loop of SceneManager::DestroyGLTextures from slot i on:
\* glGenTextures(1, &m_textureIDs[i].ID)
RECURSIVE DestroyFrom(_, _)
DestroyFrom(i, reg) ==
    IF i < reg.loaded
    THEN LET textureID == GenTexture(reg.names)
         IN  DestroyFrom(i + 1, [reg EXCEPT !.ids[i].ID = textureID,
                                            !.names = reg.names \cup {textureID}])
    ELSE reg

\* SceneManager::DestroyGLTextures
DestroyGLTextures ==
    /\ Running
    /\ LET reg == DestroyFrom(0, Registry)
       IN  /\ m_textureIDs' = reg.ids
           /\ glTextures' = reg.names
    /\ op' = "DestroyGLTextures"
    /\ UNCHANGED <<m_loadedTextures, memory, texRet, texTag, texID>>
    /\ UNCHANGED renderVars
    /\ UNCHANGED viewState

\* the loop of SceneManager::FindTextureID from index on
RECURSIVE FindTextureIDFrom(_, _, _, _)
FindTextureIDFrom(ids, loaded, tag, index) ==
    IF index < loaded
    THEN IF ids[index].tag = tag
         THEN ids[index].ID
         ELSE FindTextureIDFrom(ids, loaded, tag, index + 1)
    ELSE -1

\* the loop of SceneManager::FindTextureSlot from index on
RECURSIVE FindTextureSlotFrom(_, _, _, _)
FindTextureSlotFrom(ids, loaded, tag, index) ==
    IF index < loaded
    THEN IF ids[index].tag = tag
         THEN index
         ELSE FindTextureSlotFrom(ids, loaded, tag, index + 1)
    ELSE -1

\* a variant that reports every miss
FindTextureSlotResult_ReportsEvery(ids, loaded, err, lines, tag) ==
    LET textureSlot == FindTextureSlotFrom(ids, loaded, tag, 0)
        report == textureSlot = -1
    IN  [slot |-> textureSlot,
         err |-> IF report THEN TRUE ELSE err,
         lines |-> IF report THEN Append(lines, tag) ELSE lines]

\* a variant that starts the search at the second slot
FindTextureSlotResult_FromOne(ids, loaded, err, lines, tag) ==
    LET textureSlot == FindTextureSlotFrom(ids, loaded, tag, 1)
        report == textureSlot = -1 /\ ~err
    IN  [slot |-> textureSlot,
         err |-> IF report THEN TRUE ELSE err,
         lines |-> IF report THEN Append(lines, tag) ELSE lines]

\* SceneManager::FindTextureSlot on a registry: the slot returned, the
\* error flag and the lines printed afterwards
FindTextureSlotResult(ids, loaded, err, lines, tag) ==
    LET textureSlot == FindTextureSlotFrom(ids, loaded, tag, 0)
        report == textureSlot = -1 /\ ~err
    IN  [slot |-> textureSlot,
         err |-> IF report THEN TRUE ELSE err,
         lines |-> IF report THEN Append(lines, tag) ELSE lines]

\* SceneManager::FindTextureID
FindTextureID(tag) ==
    /\ Running
    /\ findRet' = [fn |-> "FindTextureID", tag |-> tag,
                   ret |-> FindTextureIDFrom(m_textureIDs, m_loadedTextures, tag, 0)]
    /\ op' = "FindTextureID"
    /\ UNCHANGED <<g_errorEncountered, m_objectMaterials, boundUnits, meshes, process,
                   sceneShader, drawCalls, loadRets, matRet, printed>>
    /\ UNCHANGED textureVars
    /\ UNCHANGED viewState

\* SceneManager::FindTextureSlot
FindTextureSlot(tag) ==
    /\ Running
    /\ LET r == FindTextureSlotResult(m_textureIDs, m_loadedTextures,
                                      g_errorEncountered, printed, tag)
       IN  /\ findRet' = [fn |-> "FindTextureSlot", tag |-> tag, ret |-> r.slot]
           /\ g_errorEncountered' = r.err
           /\ printed' = r.lines
    /\ op' = "FindTextureSlot"
    /\ UNCHANGED <<m_objectMaterials, boundUnits, meshes, process, sceneShader,
                   drawCalls, loadRets, matRet>>
    /\ UNCHANGED textureVars
    /\ UNCHANGED viewState

-----------------------------------------------------------------------------
(* SceneManager: materials.  Colours and strengths are in hundredths. *)

Material(tag, ambientColor, ambientStrength, diffuseColor, specularColor, shininess) ==
    [tag |-> tag, ambientColor |-> ambientColor, ambientStrength |-> ambientStrength,
     diffuseColor |-> diffuseColor, specularColor |-> specularColor,
     shininess |-> shininess]

\* the seven materials SceneManager::DefineObjectMaterials pushes, in order
SceneMaterials ==
    << Material("wood",      <<10, 10, 0>>,  30, <<70, 70, 60>>, <<50, 50, 40>>, 32),
       Material("glass",     <<10, 10, 10>>, 30, <<20, 20, 20>>, <<80, 80, 80>>, 64),
       Material("plastic",   <<0, 10, 10>>,  30, <<80, 80, 80>>, <<20, 60, 40>>, 16),
       Material("trackball", <<20, 20, 20>>, 30, <<40, 40, 40>>, <<70, 70, 70>>, 48),
       Material("ballball",  <<20, 20, 20>>, 30, <<40, 40, 40>>, <<70, 70, 70>>, 128),
       Material("aluminum",  <<30, 30, 30>>, 10, <<30, 30, 30>>, <<60, 60, 60>>, 64),
       Material("crt",       <<60, 60, 60>>, 30, <<60, 60, 60>>, <<70, 70, 70>>, 12) >>

\* SceneManager::DefineObjectMaterials
DefineObjectMaterials(materials) == materials \o SceneMaterials

\* the five values FindMaterial copies from a list entry
MaterialValues(m) ==
    [ambientColor |-> m.ambientColor, ambientStrength |-> m.ambientStrength,
     diffuseColor |-> m.diffuseColor, specularColor |-> m.specularColor,
     shininess |-> m.shininess]

\* what an OBJECT_MATERIAL that nothing has been assigned to may hold
UninitMaterials ==
    { [ambientColor |-> <<0, 0, 0>>, ambientStrength |-> 0, diffuseColor |-> <<0, 0, 0>>,
       specularColor |-> <<0, 0, 0>>, shininess |-> 0],
      [ambientColor |-> <<-7, 3, 99>>, ambientStrength |-> 12345,
       diffuseColor |-> <<1, 2, 3>>, specularColor |-> <<4, 5, 6>>, shininess |-> -1] }

\* the loop of SceneManager::FindMaterial from index on (indices from 1 here)
RECURSIVE FindMaterialFrom(_, _, _, _)
FindMaterialFrom(materials, tag, out, index) ==
    IF index <= Len(materials)
    THEN IF materials[index].tag = tag
         THEN MaterialValues(materials[index])
         ELSE FindMaterialFrom(materials, tag, out, index + 1)
    ELSE out

\* SceneManager::FindMaterial: the value returned and what the material
\* passed in holds afterwards
FindMaterialResult(materials, tag, out) ==
    IF Len(materials) = 0
    THEN [ret |-> FALSE, material |-> out]
    ELSE [ret |-> TRUE, material |-> FindMaterialFrom(materials, tag, out, 1)]

\* SceneManager::SetShaderMaterial on the uniforms; its local
\* OBJECT_MATERIAL is not initialised
SetShaderMaterial(uniforms, materials, tag, uninit) ==
    IF Len(materials) > 0
    THEN LET r == FindMaterialResult(materials, tag, uninit)
         IN  IF r.ret = TRUE
             THEN [uniforms EXCEPT !.material = r.material]
             ELSE uniforms
    ELSE uniforms

-----------------------------------------------------------------------------
(* SceneManager: the shader uniforms and the draw calls *)

\* the uniforms of a freshly linked shader program: all zero
DefaultUniforms ==
    [bUseTexture |-> FALSE, bUseTexture2 |-> FALSE, bUseSpecularMap |-> FALSE,
     bUseLighting |-> FALSE, objectColor |-> <<0, 0, 0, 0>>,
     objectTexture |-> 0, objectTexture2 |-> 0, specularMap |-> 0,
     material |-> [ambientColor |-> <<0, 0, 0>>, ambientStrength |-> 0,
                   diffuseColor |-> <<0, 0, 0>>, specularColor |-> <<0, 0, 0>>,
                   shininess |-> 0],
     lightEnabled |-> [i \in 0 .. 3 |-> FALSE]]

\* the colours updateRGBlight may compute from the time, (2 + c) / 3 of
\* (sin t, cos t, sin t / 2), in hundredths
RGBColors == {<<67, 100, 67>>, <<100, 67, 83>>}

\* the statements of the draw functions
CmdColor(r, g, b, a) == [c |-> "SetShaderColor", color |-> <<r, g, b, a>>]
CmdTexture(tag) == [c |-> "SetShaderTexture", tag |-> tag]
CmdTexture2(tag) == [c |-> "SetShaderTexture2", tag |-> tag]
CmdSpecularMap(tag) == [c |-> "SetShaderSpecularMap", tag |-> tag]
CmdMaterial(tag) == [c |-> "SetShaderMaterial", tag |-> tag]
CmdSetInt(name, value) == [c |-> "setIntValue", name |-> name, value |-> value]
CmdDraw(mesh, part, line) == [c |-> "Draw", mesh |-> mesh, part |-> part, line |-> line]
CmdRGBLight == [c |-> "updateRGBlight"]

\* SceneManager::SetShaderColor
SetShaderColor(uniforms, color) ==
    [uniforms EXCEPT !.bUseTexture = FALSE, !.objectColor = color]

\* SetShaderTexture, SetShaderTexture2 and SetShaderSpecularMap: the flag
\* goes up, the sampler gets the slot FindTextureSlot returns
SetShaderSampler(st, flag, sampler, tag, ctx) ==
    LET r == FindTextureSlotResult(ctx.ids, ctx.loaded, st.err, st.lines, tag)
    IN  [st EXCEPT !.uniforms = [st.uniforms EXCEPT ![flag] = TRUE, ![sampler] = r.slot],
                   !.err = r.err,
                   !.lines = r.lines]

\* a variant that colours the fan and leaves the light alone
updateRGBlight_ColorOnly(uniforms, rgb) ==
    SetShaderColor(uniforms, <<rgb[1], rgb[2], rgb[3], 100>>)

\* SceneManager::updateRGBlight
updateRGBlight(uniforms, rgb) ==
    SetShaderColor([uniforms EXCEPT !.lightEnabled[2] = TRUE],
                   <<rgb[1], rgb[2], rgb[3], 100>>)

\* one statement of a draw function, on the uniforms (st.uniforms), the error
\* flag (st.err), the lines printed (st.lines) and the draw calls made (st.draws)
Exec(st, cmd, ctx) ==
    IF cmd.c = "SetShaderColor"
    THEN [st EXCEPT !.uniforms = SetShaderColor(st.uniforms, cmd.color)]
    ELSE IF cmd.c = "SetShaderTexture"
    THEN SetShaderSampler(st, "bUseTexture", "objectTexture", cmd.tag, ctx)
    ELSE IF cmd.c = "SetShaderTexture2"
    THEN SetShaderSampler(st, "bUseTexture2", "objectTexture2", cmd.tag, ctx)
    ELSE IF cmd.c = "SetShaderSpecularMap"
    THEN SetShaderSampler(st, "bUseSpecularMap", "specularMap", cmd.tag, ctx)
    ELSE IF cmd.c = "SetShaderMaterial"
    THEN [st EXCEPT !.uniforms = SetShaderMaterial(st.uniforms, ctx.materials, cmd.tag,
                                                   ctx.uninit)]
    ELSE IF cmd.c = "setIntValue"
    THEN [st EXCEPT !.uniforms = [st.uniforms EXCEPT ![cmd.name] = cmd.value]]
    ELSE IF cmd.c = "updateRGBlight"
    THEN [st EXCEPT !.uniforms = updateRGBlight(st.uniforms, ctx.rgb)]
    ELSE \* m_basicMeshes->Draw...Mesh() with the uniforms as they are
         [st EXCEPT !.draws = Append(st.draws, [mesh |-> cmd.mesh, part |-> cmd.part,
                                                line |-> cmd.line,
                                                uniforms |-> st.uniforms])]

\* the statements cmds[lo], ..., cmds[hi] in order: the first half of them,
\* then the second half from the state (half) the first half leaves
RECURSIVE ExecRange(_, _, _, _, _)
ExecRange(st, cmds, lo, hi, ctx) ==
    IF lo > hi THEN st
    ELSE IF lo = hi THEN Exec(st, cmds[lo], ctx)
    ELSE LET mid == (lo + hi) \div 2
         IN  CHOOSE last \in {ExecRange(half, cmds, mid + 1, hi, ctx) :
                                 half \in {ExecRange(st, cmds, lo, mid, ctx)}} : TRUE

\* SceneManager::drawDesk
drawDesk ==
    << CmdColor(100, 100, 100, 100),
       CmdTexture("desk"), CmdTexture2("deskmat"), CmdSpecularMap("deskmat_specmap"),
       CmdMaterial("wood"),
       CmdDraw("Plane", "drawDesk", 684),
       CmdSetInt("bUseTexture2", FALSE), CmdSetInt("bUseSpecularMap", FALSE) >>

\* SceneManager::drawWalls
drawWalls ==
    << CmdColor(100, 90, 55, 100), CmdMaterial("wood"), CmdDraw("Plane", "drawWalls", 1327),
       CmdColor(100, 90, 55, 100), CmdMaterial("wood"), CmdDraw("Plane", "drawWalls", 1355) >>

\* SceneManager::drawKeyboard: seven boxes of the case, then the key caps
drawKeyboard ==
    <<
       CmdColor(0, 100, 0, 100), CmdTexture("keyboard"), CmdMaterial("plastic"),
       CmdDraw("Box", "drawKeyboard", 736),
       CmdColor(0, 100, 0, 100), CmdTexture("keyboard"), CmdMaterial("plastic"),
       CmdDraw("Box", "drawKeyboard", 777),
       CmdColor(0, 100, 0, 100), CmdTexture("keyboard"), CmdMaterial("plastic"),
       CmdDraw("Box", "drawKeyboard", 818),
       CmdColor(0, 100, 0, 100), CmdTexture("keyboard"), CmdMaterial("plastic"),
       CmdDraw("Box", "drawKeyboard", 853),
       CmdColor(0, 100, 0, 100), CmdTexture("keyboard"), CmdMaterial("plastic"),
       CmdDraw("Box", "drawKeyboard", 888),
       CmdColor(0, 100, 0, 100), CmdTexture("keyboard"), CmdMaterial("plastic"),
       CmdDraw("Box", "drawKeyboard", 923),
       CmdColor(0, 100, 0, 100), CmdTexture("keyboard"), CmdMaterial("plastic"),
       CmdDraw("Box", "drawKeyboard", 958),
       CmdColor(90, 100, 100, 100), CmdTexture("keycap"), CmdMaterial("plastic"),
       CmdDraw("Box", "drawKeyboard", 1004),
       CmdDraw("Box", "drawKeyboard", 1018), CmdDraw("Box", "drawKeyboard", 1031), CmdDraw("Box", "drawKeyboard", 1047),
       CmdDraw("Box", "drawKeyboard", 1060), CmdDraw("Box", "drawKeyboard", 1074), CmdDraw("Box", "drawKeyboard", 1090),
       CmdDraw("Box", "drawKeyboard", 1103), CmdDraw("Box", "drawKeyboard", 1117), CmdDraw("Box", "drawKeyboard", 1132),
       CmdDraw("Box", "drawKeyboard", 1145), CmdDraw("Box", "drawKeyboard", 1158), CmdDraw("Box", "drawKeyboard", 1181),
       CmdDraw("Box", "drawKeyboard", 1195), CmdDraw("Box", "drawKeyboard", 1208), CmdDraw("Box", "drawKeyboard", 1221),
       CmdDraw("Box", "drawKeyboard", 1247), CmdDraw("Box", "drawKeyboard", 1260), CmdDraw("Box", "drawKeyboard", 1273),
       CmdDraw("Box", "drawKeyboard", 1287) >>

\* SceneManager::drawTrackball
drawTrackball ==
    << CmdMaterial("ballball"), CmdColor(50, 50, 50, 100),
       CmdDraw("Sphere", "drawTrackball", 1925),
       CmdMaterial("trackball"), CmdColor(30, 30, 30, 100),
       CmdDraw("Cylinder", "drawTrackball", 1953),
       CmdMaterial("trackball"), CmdDraw("Cylinder", "drawTrackball", 1978),
       CmdMaterial("trackball"), CmdDraw("Sphere", "drawTrackball", 2004),
       CmdMaterial("trackball"), CmdDraw("Cylinder", "drawTrackball", 2028) >>

\* SceneManager::drawPrimaryMonitor: the picture, the glass over it, the stand
drawPrimaryMonitor ==
    << CmdColor(100, 100, 100, 100), CmdTexture("lambda_wallpaper"), CmdMaterial("glass"),
       CmdDraw("Plane", "drawPrimaryMonitor", 1396),
       CmdSetInt("bUseTexture", FALSE),
       CmdColor(100, 100, 100, 10), CmdMaterial("glass"),
       CmdDraw("Plane", "drawPrimaryMonitor", 1429),
       CmdColor(100, 100, 100, 100),
       CmdMaterial("aluminum"), CmdDraw("Prism", "drawPrimaryMonitor", 1458),
       CmdMaterial("aluminum"), CmdDraw("Prism", "drawPrimaryMonitor", 1484),
       CmdMaterial("aluminum"), CmdDraw("Prism", "drawPrimaryMonitor", 1510) >>

\* SceneManager::drawSecondaryMonitor
drawSecondaryMonitor ==
    << CmdMaterial("crt"), CmdColor(100, 100, 100, 100),
       CmdDraw("Box", "drawSecondaryMonitor", 1552),
       CmdMaterial("trackball"), CmdColor(30, 30, 30, 100),
       CmdDraw("Box", "drawSecondaryMonitor", 1580),
       CmdMaterial("trackball"), CmdColor(30, 30, 30, 100),
       CmdDraw("Cylinder", "drawSecondaryMonitor", 1606),
       CmdMaterial("glass"), CmdColor(20, 20, 20, 100), CmdTexture("lambda_wallpaper"),
       CmdDraw("Box", "drawSecondaryMonitor", 1634),
       CmdColor(100, 100, 100, 100),
       CmdMaterial("glass"), CmdColor(20, 20, 20, 20),
       CmdDraw("Box", "drawSecondaryMonitor", 1666),
       CmdColor(100, 100, 100, 100) >>

\* SceneManager::drawTower: five panels, the fan, the glass side
drawTower ==
    << CmdColor(30, 30, 30, 100), CmdMaterial("aluminum"),
       CmdDraw("Plane", "drawTower", 1739), CmdDraw("Plane", "drawTower", 1760),
       CmdDraw("Plane", "drawTower", 1781), CmdDraw("Plane", "drawTower", 1802),
       CmdDraw("Plane", "drawTower", 1823),
       CmdRGBLight, CmdMaterial("ballball"),
       CmdDraw("Cylinder", "drawTower", 1851),
       CmdColor(100, 100, 100, 100),
       CmdColor(100, 100, 100, 10), CmdMaterial("glass"),
       CmdDraw("Plane", "drawTower", 1880),
       CmdColor(100, 100, 100, 100) >>

\* a variant that leaves the second layer and the specular map on after the desk
RenderSceneStatements_FlagsLeftOn ==
    SubSeq(drawDesk, 1, Len(drawDesk) - 2) \o drawWalls \o drawKeyboard \o drawTrackball
        \o drawPrimaryMonitor \o drawSecondaryMonitor \o drawTower

\* the statements of SceneManager::RenderScene, in order
RenderSceneStatements ==
    drawDesk \o drawWalls \o drawKeyboard \o drawTrackball
        \o drawPrimaryMonitor \o drawSecondaryMonitor \o drawTower

\* SceneManager::RenderScene: one frame
RenderScene(rgb, uninit) ==
    /\ Running
    /\ LET ctx == [ids |-> m_textureIDs, loaded |-> m_loadedTextures,
                   materials |-> m_objectMaterials, rgb |-> rgb, uninit |-> uninit]
           st == ExecRange([uniforms |-> sceneShader, err |-> g_errorEncountered,
                            lines |-> printed, draws |-> <<>>],
                           RenderSceneStatements, 1, Len(RenderSceneStatements), ctx)
       IN  /\ sceneShader' = st.uniforms
           /\ g_errorEncountered' = st.err
           /\ printed' = st.lines
           /\ drawCalls' = st.draws
    /\ op' = "RenderScene"
    /\ UNCHANGED <<m_objectMaterials, boundUnits, meshes, process, loadRets, findRet,
                   matRet>>
    /\ UNCHANGED textureVars
    /\ UNCHANGED viewState

-----------------------------------------------------------------------------
(* SceneManager: preparing the scene *)

\* SceneManager::enableLighting
enableLighting(uniforms) ==
    [uniforms EXCEPT !.bUseLighting = TRUE, !.lightEnabled = [i \in 0 .. 3 |-> FALSE]]

\* SceneManager::SetUpSceneLights
SetUpSceneLights(uniforms) ==
    LET u == enableLighting(uniforms)
    IN  [u EXCEPT !.lightEnabled[0] = TRUE, !.lightEnabled[1] = TRUE]

\* the tags LoadSceneTextures loads, in order
SceneTextureTags ==
    <<"keyboard", "desk", "keycap", "deskmat", "deskmat_specmap", "lambda_wallpaper">>

\* the meshes PrepareScene loads
BasicMeshes == {"Plane", "Box", "Sphere", "Cylinder", "Prism"}

\* a variant that goes on after a texture failed to load
ExitOnFailure_Never(ret) == FALSE

\* if (!CreateGLTexture(...)) exit(1);
ExitOnFailure(ret) == ret = FALSE

\* SceneManager::LoadSceneTextures from its i-th CreateGLTexture call on: the
\* registries it may leave, with what the calls returned (rets), the last
\* texture name generated (id) and whether the program exited
RECURSIVE LoadSceneTexturesFrom(_, _, _, _, _)
LoadSceneTexturesFrom(i, reg, rets, id, images) ==
    IF i > Len(SceneTextureTags)
    THEN {[reg |-> reg, rets |-> rets, id |-> id, exited |-> FALSE]}
    ELSE UNION {
        LET next == [loaded |-> out.loaded, ids |-> out.ids, names |-> out.names,
                     memory |-> out.memory]
        IN  IF out.memory # "ok"
            THEN \* a write outside the array: undefined from here on
                 {[reg |-> next, rets |-> Append(rets, out.ret), id |-> out.id,
                   exited |-> FALSE]}
            ELSE IF ExitOnFailure(out.ret)
            THEN {[reg |-> next, rets |-> Append(rets, out.ret), id |-> out.id,
                   exited |-> TRUE]}
            ELSE LoadSceneTexturesFrom(i + 1, next, Append(rets, out.ret), out.id, images)
        : out \in CreateGLTextureOutcomes(reg, images[i], SceneTextureTags[i]) }

\* SceneManager::PrepareScene; images[i] is what stbi_load gives for the
\* i-th file
PrepareScene(images) ==
    /\ Running
    /\ m_objectMaterials' = DefineObjectMaterials(m_objectMaterials)
    /\ sceneShader' = SetUpSceneLights(sceneShader)
    /\ \E r \in LoadSceneTexturesFrom(1, Registry, <<>>, 0, images) :
            /\ m_loadedTextures' = r.reg.loaded
            /\ m_textureIDs' = r.reg.ids
            /\ glTextures' = r.reg.names
            /\ memory' = r.reg.memory
            /\ loadRets' = r.rets
            /\ texRet' = r.rets[Len(r.rets)]
            /\ texTag' = SceneTextureTags[Len(r.rets)]
            /\ texID' = r.id
            /\ IF r.exited
               THEN /\ process' = "exit(1)"
                    /\ UNCHANGED <<boundUnits, meshes>>
               ELSE IF r.reg.memory # "ok"
               THEN UNCHANGED <<process, boundUnits, meshes>>
               ELSE /\ boundUnits' = BindGLTextures(r.reg.ids, r.reg.loaded)
                    /\ meshes' = meshes \cup BasicMeshes
                    /\ UNCHANGED process
    /\ op' = "PrepareScene"
    /\ UNCHANGED <<g_errorEncountered, drawCalls, findRet, matRet, printed>>
    /\ UNCHANGED viewState

\* SceneManager::FindMaterial, called with a material holding out
FindMaterial(tag, out) ==
    /\ Running
    /\ LET r == FindMaterialResult(m_objectMaterials, tag, out)
       IN  matRet' = [tag |-> tag, ret |-> r.ret, material |-> r.material]
    /\ op' = "FindMaterial"
    /\ UNCHANGED <<g_errorEncountered, m_objectMaterials, boundUnits, meshes, process,
                   sceneShader, drawCalls, loadRets, findRet, printed>>
    /\ UNCHANGED textureVars
    /\ UNCHANGED viewState

\* the state after the SceneManager constructor
InitScene ==
    /\ m_loadedTextures = 0
    /\ m_textureIDs = [i \in 0 .. (TextureSlots - 1) |-> [ID |-> 0, tag |-> ""]]
    /\ glTextures = {}
    /\ memory = "ok"
    /\ texRet = "none"
    /\ texTag = ""
    /\ texID = 0
    /\ g_errorEncountered = FALSE
    /\ m_objectMaterials = <<>>
    /\ boundUnits = [i \in {} |-> 0]
    /\ meshes = {}
    /\ process = "running"
    /\ sceneShader = DefaultUniforms
    /\ drawCalls = <<>>
    /\ loadRets = <<>>
    /\ findRet = [fn |-> "none", tag |-> "", ret |-> 0]
    /\ matRet = [tag |-> "", ret |-> "none", material |-> "none"]
    /\ printed = <<>>

-----------------------------------------------------------------------------
(* The environment: the window system delivers frames, cursor and scroll events *)

\* the sets of at most n keys among ks
KeySetsOf(ks, n) == {k \in SUBSET ks : Cardinality(k) <= n}

Frame(keySets, maxTime, positions) ==
    \E keys \in keySets, d \in FrameDeltas, moveTo \in positions :
        /\ gLastFrame + d <= maxTime
        /\ PrepareSceneView(keys, gLastFrame + d, moveTo)

MouseMove(xs, ys, orientations) ==
    \E x \in xs, y \in ys, turnTo \in orientations :
        Mouse_Position_Callback(x, y, turnTo)

Scroll(xOffsets, yOffsets) ==
    \E xo \in xOffsets, yo \in yOffsets :
        Mouse_Scroll_Wheel_Callback(xo, yo)

\* the textures generated and never registered
Leaked == Cardinality(glTextures) - m_loadedTextures

LoadTexture(images, tags, maxLeaked) ==
    \E image \in images, tag \in tags :
        /\ colorChannels(image) = 1 => Leaked < maxLeaked
        /\ CreateGLTexture(image, tag)

\* the caller of PrepareScene; stbi_load gives one of images for each file
Prepare(images) ==
    \E imgs \in [1 .. Len(SceneTextureTags) -> images] : PrepareScene(imgs)

\* the caller of RenderScene, at a time that gives the RGB light one of colors
Render(colors) ==
    \E rgb \in colors, uninit \in UninitMaterials : RenderScene(rgb, uninit)

\* the caller of DestroyGLTextures
Destroy(maxNames) ==
    /\ Cardinality(glTextures) + m_loadedTextures <= maxNames
    /\ DestroyGLTextures

\* the callers of FindTextureID and FindTextureSlot
FindTexture(tags) ==
    \E tag \in tags : FindTextureID(tag) \/ FindTextureSlot(tag)

\* the caller of FindMaterial
LookUpMaterial(tags) ==
    \E tag \in tags, out \in UninitMaterials : FindMaterial(tag, out)

\* the caller of SetShaderMaterial
ShaderMaterial(tags) ==
    \E tag \in tags, uninit \in UninitMaterials :
        /\ Running
        /\ sceneShader' = SetShaderMaterial(sceneShader, m_objectMaterials, tag, uninit)
        /\ matRet' = IF Len(m_objectMaterials) > 0
                      THEN LET r == FindMaterialResult(m_objectMaterials, tag, uninit)
                           IN  [tag |-> tag, ret |-> r.ret, material |-> r.material]
                      ELSE matRet
        /\ op' = "SetShaderMaterial"
        /\ UNCHANGED <<g_errorEncountered, m_objectMaterials, boundUnits, meshes, process,
                       drawCalls, loadRets, findRet, printed>>
        /\ UNCHANGED textureVars
        /\ UNCHANGED viewState

Init == InitView /\ InitScene

\* The whole program.  The specifications below are this one with the inputs
\* of a part of the program, so that each can be explored to its end.
Next ==
    \/ Running /\ Frame(KeySetsOf(Keys, MaxKeysDown), MaxTime, CameraPositions)
    \/ Running /\ MouseMove(CursorXs, CursorYs, CameraOrientations)
    \/ Running /\ Scroll(ScrollOffsets, ScrollOffsets)
    \/ LoadTexture(Images, TextureTags, MaxLeaked)
    \/ Prepare(Images)
    \/ Render(RGBColors)
    \/ Destroy(MaxTextureNames)
    \/ FindTexture(TextureTags \cup {"missing"})
    \/ LookUpMaterial(MaterialTags)
    \/ ShaderMaterial(MaterialTags)

Spec == Init /\ [][Next]_vars

\* ---- the projection switch: movement keys with P and O, the camera moving and turning
ProjectionKeys == {"W", "A", "P", "O"}

NextProjection ==
    \/ Frame(SUBSET ProjectionKeys, MaxTime, CameraPositions)
    \/ MouseMove({WINDOW_WIDTH \div 2}, {WINDOW_HEIGHT \div 2}, CameraOrientations)

SpecProjection == Init /\ [][NextProjection]_vars

-----------------------------------------------------------------------------
(* Properties of the projection switch *)

FrameDone == op = "PrepareSceneView"

\* C1: a frame in which key P is down ends with the perspective camera at
\* Position (0,5,12), Front (0,-0.5,-2), Up (0,1,0), whatever the pose was and
\* whichever movement keys were down; without key O the mode is perspective.
C1_PResetsPerspectiveCamera ==
    (FrameDone /\ "P" \in keysDown) =>
        /\ camera.Position = <<0, 5000, 12000>>
        /\ camera.Front = <<0, -500, -2000>>
        /\ camera.Up = <<0, 1000, 0>>
        /\ ("O" \notin keysDown => bOrthographicProjection = FALSE)

\* a frame with P and two movement keys down, a second having passed
C1_Witness ==
    /\ FrameDone
    /\ keysDown = {"P", "W", "A"}
    /\ gDeltaTime = 1
    /\ camera.Front = DefaultFront

\* C2: a frame in which key O is down ends with o_yaw = 0, o_pitch = 0 and the
\* orthographic mode, whatever the angles were, whichever movement keys were
\* down and wherever the perspective camera is.
C2_OResetsOrbitCamera ==
    (FrameDone /\ "O" \in keysDown) =>
        /\ o_yaw = 0
        /\ o_pitch = 0
        /\ bOrthographicProjection = TRUE

\* a frame with O and two movement keys down, the perspective camera moved away
C2_Witness ==
    /\ FrameDone
    /\ keysDown = {"O", "W", "A"}
    /\ gDeltaTime = 1
    /\ camera.Position # DefaultPosition
    /\ o_pitch = 0

\* C3: in every frame the shader gets the orbit look-at-origin view and the
\* orthographic projection exactly when bOrthographicProjection is true after
\* the frame's keyboard poll, else the camera's own view and the perspective
\* projection; a P or O press takes effect in the frame that polls it.
C3_MatricesFollowFlag ==
    FrameDone =>
        /\ IF bOrthographicProjection
           THEN /\ shader.view = [kind |-> "lookAt", eye |-> o_camera_position,
                                  target |-> <<0, 0, 0>>, up |-> <<0, 1000, 0>>]
                /\ shader.projection.kind = "ortho"
           ELSE /\ shader.view = [kind |-> "camera", eye |-> camera.Position,
                                  front |-> camera.Front, up |-> camera.Up]
                /\ shader.projection.kind = "perspective"
        /\ ("O" \in keysDown => shader.projection.kind = "ortho")
        /\ ("P" \in keysDown /\ "O" \notin keysDown => shader.projection.kind = "perspective")

\* the frame that polls key O already renders with the orthographic matrices
C3_Witness ==
    /\ FrameDone
    /\ "O" \in keysDown
    /\ shader.view.kind = "lookAt"
    /\ shader.projection.kind = "ortho"

-----------------------------------------------------------------------------
(* The orbit camera: the four orbit keys with O, the panning speed scrolled *)

OrbitKeys == {"W", "S", "A", "D", "O"}

NextOrbit ==
    \/ Frame(KeySetsOf(OrbitKeys, MaxKeysDown), MaxTime, {DefaultPosition})
    \/ Scroll({1000}, {0})

SpecOrbit == Init /\ [][NextOrbit]_vars

\* the orbit keys down in the frame just polled, under the bindings it polled with
OrbitKeysDown == keysDown' \cap {gkey_forward, gkey_backward, gkey_left, gkey_right}

\* s = gDeltaTime x p_scalar x o_scalar, in hundredths of a degree
StepOfFrame == gDeltaTime' * p_scalar * 5

\* above 360 becomes 0, below 0 becomes 359.9
Wrapped(a) == IF a > 36000 THEN 0 ELSE IF a < 0 THEN 35990 ELSE a

OrbitKeyEffect ==
    /\ OrbitKeysDown = {gkey_forward} =>
            o_pitch' = Wrapped(o_pitch + StepOfFrame) /\ o_yaw' = o_yaw
    /\ OrbitKeysDown = {gkey_backward} =>
            o_pitch' = Wrapped(o_pitch - StepOfFrame) /\ o_yaw' = o_yaw
    /\ OrbitKeysDown = {gkey_right} =>
            o_yaw' = Wrapped(o_yaw + StepOfFrame) /\ o_pitch' = o_pitch
    /\ OrbitKeysDown = {gkey_left} =>
            o_yaw' = Wrapped(o_yaw - StepOfFrame) /\ o_pitch' = o_pitch

\* C4 as stated: in orthographic mode a frame with exactly one of the forward,
\* backward, right, left keys down changes o_pitch by +s / -s or o_yaw by +s / -s
\* (s = gDeltaTime x p_scalar x o_scalar), wrapped to 0 above 360 and to 359.9
\* below 0, and leaves the other angle alone.
C4_AsStated ==
    [][(op' = "PrepareSceneView" /\ bOrthographicProjection) => OrbitKeyEffect]_vars

\* C4 amended: the same, for the frames in which key O is not down.
C4_OrbitKeyStep ==
    [][(op' = "PrepareSceneView" /\ bOrthographicProjection /\ "O" \notin keysDown')
          => OrbitKeyEffect]_vars

\* forward alone for one second in orthographic mode took the pitch past 360 to 0
C4_Witness ==
    /\ FrameDone
    /\ bOrthographicProjection
    /\ keysDown = {"W"}
    /\ gDeltaTime = 1
    /\ o_pitch = 0

\* ---- all three inputs together: frames, cursor moves and scrolling
InputKeys == {"W", "D", "O", "P"}

NextInputs ==
    \/ Frame(KeySetsOf(InputKeys, MaxKeysDown), MaxTime, {DefaultPosition})
    \/ MouseMove({WINDOW_WIDTH \div 2}, {WINDOW_HEIGHT \div 2}, CameraOrientations)
    \/ Scroll({1000}, {1000})

SpecInputs == Init /\ [][NextInputs]_vars

\* C5: o_yaw and o_pitch are unchanged by every mouse-move event, every scroll
\* event and every frame polled in perspective mode without key O; o_radius is
\* changed by nothing.
C5_OrbitIndependent ==
    [][/\ o_radius' = o_radius
       /\ (op' \in {"Mouse_Position_Callback", "Mouse_Scroll_Wheel_Callback"}
             => o_yaw' = o_yaw /\ o_pitch' = o_pitch)
       /\ (op' = "PrepareSceneView" /\ ~bOrthographicProjection /\ "O" \notin keysDown'
             => o_yaw' = o_yaw /\ o_pitch' = o_pitch)]_vars

\* a perspective-mode frame with two orbit keys down for a second, the orbit
\* angles still where the last orthographic frame left them
C5_Witness ==
    /\ FrameDone
    /\ ~bOrthographicProjection
    /\ keysDown = {"W", "D"}
    /\ gDeltaTime = 1
    /\ o_pitch # 0
    /\ o_yaw # 0

VecNorm2(v) == v[1] * v[1] + v[2] * v[2] + v[3] * v[3]

\* the squared distance may be off by the rounding of the fixed-point sines
DistanceTolerance == 100 * TrigScale

\* C8: whenever the orthographic view is built, the eye is
\* (cos(yaw) cos(pitch) r, sin(pitch) r, sin(yaw) cos(pitch) r) with r = 10,
\* at distance r from the world origin (to the rounding of the sines), and
\* the view looks at the world origin.
C8_EyeOnSphere ==
    (FrameDone /\ bOrthographicProjection) =>
        /\ o_radius = 10
        /\ shader.view.kind = "lookAt"
        /\ shader.view.target = <<0, 0, 0>>
        /\ shader.view.eye[1] = (((Cos(o_yaw) * Cos(o_pitch)) \div TrigScale) * o_radius) \div 10
        /\ shader.view.eye[2] = (Sin(o_pitch) * o_radius) \div 10
        /\ shader.view.eye[3] = (((Sin(o_yaw) * Cos(o_pitch)) \div TrigScale) * o_radius) \div 10
        /\ VecNorm2(shader.view.eye) - (o_radius * 1000) * (o_radius * 1000) <= DistanceTolerance
        /\ (o_radius * 1000) * (o_radius * 1000) - VecNorm2(shader.view.eye) <= DistanceTolerance

\* an orthographic frame with the orbit camera off both axes
C8_Witness ==
    /\ FrameDone
    /\ bOrthographicProjection
    /\ o_yaw \notin {0, 36000}
    /\ o_pitch > 18000
    /\ shader.view.eye[2] < 0
    /\ shader.view.eye[3] # 0

-----------------------------------------------------------------------------
(* The keyboard layouts: keys of both tables, with O for the orthographic mode *)

LayoutKeys == {"C", "Q", "W", "F", "O"}

NextLayout ==
    \/ Frame(KeySetsOf(LayoutKeys, MaxKeysDown), MaxTime, CameraPositions)
    \/ MouseMove({WINDOW_WIDTH \div 2}, {WINDOW_HEIGHT \div 2}, {[Front |-> DefaultFront, Up |-> DefaultUp]})

SpecLayout == Init /\ [][NextLayout]_vars

Bindings ==
    <<gkey_forward, gkey_backward, gkey_left, gkey_right, gkey_up, gkey_down, gkey_layout>>

BindingsFormATable ==
    IF bcolemak_layout
    THEN Bindings = <<"F", "S", "R", "T", "SPACE", "A", "Q">>
    ELSE Bindings = <<"W", "S", "A", "D", "Q", "E", "C">>

\* C6: the seven bindings always are (W,S,A,D,Q,E,C) with bcolemak_layout false
\* or (F,S,R,T,SPACE,A,Q) with it true; a frame polled with the current layout
\* key down replaces the table by the other and flips the flag; nothing else
\* changes a binding.
C6_TwoLayoutTables ==
    /\ BindingsFormATable
    /\ [][/\ BindingsFormATable'
           /\ IF op' = "PrepareSceneView" /\ gkey_layout \in keysDown'
              THEN bcolemak_layout' = ~bcolemak_layout /\ Bindings' # Bindings
              ELSE bcolemak_layout' = bcolemak_layout /\ Bindings' = Bindings]_vars

\* the alternate table is in force after a frame that polled C with another key
C6_Witness ==
    /\ FrameDone
    /\ keysDown = {"C", "W"}
    /\ bcolemak_layout
    /\ gkey_forward = "F"
    /\ gkey_down = "A"

\* C7: two successive frames, each polled with only the then-current layout key
\* down, restore the seven bindings and bcolemak_layout; neither changes the
\* projection mode, the orbit angles or the pose of the perspective camera.
C7_ToggleTwiceRestores ==
    [][/\ Len(toggleRun') = 2 =>
              /\ Bindings' = <<toggleRun'[2].kForward, toggleRun'[2].kBackward,
                               toggleRun'[2].kLeft, toggleRun'[2].kRight,
                               toggleRun'[2].kUp, toggleRun'[2].kDown,
                               toggleRun'[2].kLayout>>
              /\ bcolemak_layout' = toggleRun'[2].colemak
       /\ (op' = "PrepareSceneView" /\ keysDown' = {gkey_layout}) =>
              /\ bOrthographicProjection' = bOrthographicProjection
              /\ o_yaw' = o_yaw
              /\ o_pitch' = o_pitch
              /\ camera' = camera]_vars

\* two toggles in a row, starting from the alternate table, in orthographic
\* mode with the orbit camera and the perspective camera both moved
C7_Witness ==
    /\ FrameDone
    /\ Len(toggleRun) = 2
    /\ keysDown = {"C"}
    /\ bcolemak_layout
    /\ bOrthographicProjection
    /\ o_pitch # 0
    /\ camera.Position # DefaultPosition

-----------------------------------------------------------------------------
(* The scroll wheel *)

NextScroll == Scroll(ScrollOffsets, ScrollOffsets)

SpecScroll == Init /\ [][NextScroll]_vars

InScalarRange(x) == x >= 1 /\ x <= 1000

ClampedSum(x, offset) ==
    IF x + offset < 1 THEN 1 ELSE IF x + offset > 1000 THEN 1000 ELSE x + offset

\* C9: after any scroll events m_scalar and p_scalar lie in [0.01, 10]: each
\* event adds the vertical offset to m_scalar and the horizontal offset to
\* p_scalar and clamps each to that interval.
C9_ScalarsClamped ==
    /\ InScalarRange(m_scalar) /\ InScalarRange(p_scalar)
    /\ [][op' = "Mouse_Scroll_Wheel_Callback" =>
              /\ m_scalar' = ClampedSum(m_scalar, scrollArgs'[2])
              /\ p_scalar' = ClampedSum(p_scalar, scrollArgs'[1])
              /\ InScalarRange(m_scalar') /\ InScalarRange(p_scalar')]_vars

\* one event that drove m_scalar into the upper limit and p_scalar into the lower
C9_Witness ==
    /\ op = "Mouse_Scroll_Wheel_Callback"
    /\ scrollArgs = <<-2000, 2000>>
    /\ m_scalar = 1000
    /\ p_scalar = 1

-----------------------------------------------------------------------------
(* The texture registry filled to its end *)

NextTextureFill == LoadTexture(Images, {"desk"}, MaxLeaked)

SpecTextureFill == Init /\ [][NextTextureFill]_vars

\* C10: a CreateGLTexture call that returns true stores the new texture ID and
\* the given tag in the slot whose index is the number of textures registered
\* before the call, adds one to m_loadedTextures and leaves the slots
\* registered before as they were.
C10_RegistersInNextSlot ==
    [][(op' = "CreateGLTexture" /\ texRet' = TRUE) =>
          /\ m_loadedTextures \in DOMAIN m_textureIDs'
          /\ m_textureIDs'[m_loadedTextures] = [ID |-> texID', tag |-> texTag']
          /\ m_loadedTextures' = m_loadedTextures + 1
          /\ \A i \in 0 .. (m_loadedTextures - 1) :
                 i \in DOMAIN m_textureIDs => m_textureIDs'[i] = m_textureIDs[i]]_vars

\* C11: there are at most 16 texture slots: m_loadedTextures never exceeds 16,
\* no write goes to a slot of index 16 or more, and no texture unit of index
\* 16 or more is bound.
C11_AtMost16Slots ==
    /\ m_loadedTextures <= TextureSlots
    /\ memory = "ok"
    /\ \A unit \in DOMAIN boundUnits : unit < TextureSlots

-----------------------------------------------------------------------------
(* Lookups in a registry of a few textures, some under the same tag *)

NextTextureFind ==
    \/ m_loadedTextures < MaxTextures /\ LoadTexture({"rgb", "grey"}, TextureTags, MaxLeaked)
    \/ FindTexture(TextureTags \cup {"missing"})

SpecTextureFind == Init /\ [][NextTextureFind]_vars

\* the slots registered under tag
SlotsOf(tag) == {i \in 0 .. (m_loadedTextures - 1) : m_textureIDs[i].tag = tag}

\* the smallest of them, or -1
FirstSlotOf(tag) ==
    IF SlotsOf(tag) = {} THEN -1
    ELSE CHOOSE i \in SlotsOf(tag) : \A k \in SlotsOf(tag) : i <= k

\* C12: FindTextureSlot(tag) returns the smallest index below m_loadedTextures
\* whose registered tag equals tag, or -1 when there is none; FindTextureID(tag)
\* returns the ID stored at that index, or -1; neither changes the registry.
C12_FindReturnsFirstMatch ==
    [][/\ op' = "FindTextureSlot" =>
              /\ findRet'.ret = FirstSlotOf(findRet'.tag)
              /\ UNCHANGED <<m_loadedTextures, m_textureIDs, glTextures>>
       /\ op' = "FindTextureID" =>
              /\ findRet'.ret = IF FirstSlotOf(findRet'.tag) = -1 THEN -1
                                ELSE m_textureIDs[FirstSlotOf(findRet'.tag)].ID
              /\ UNCHANGED <<m_loadedTextures, m_textureIDs, glTextures>>]_vars

\* a tag registered in slots 0 and 2 was looked up and slot 0 came back
C12_Witness ==
    /\ op = "FindTextureSlot"
    /\ findRet = [fn |-> "FindTextureSlot", tag |-> "deskmat", ret |-> 0]
    /\ m_loadedTextures = 3
    /\ m_textureIDs[1].tag = "desk"
    /\ m_textureIDs[2].tag = "deskmat"

-----------------------------------------------------------------------------
(* Materials looked up by tag, before and after the scene is prepared *)

NextMaterials ==
    \/ Prepare({"rgb"})
    \/ LookUpMaterial(MaterialTags)
    \/ ShaderMaterial(MaterialTags)

SpecMaterials == Init /\ [][NextMaterials]_vars

\* the places of the defined materials with this tag
MaterialsTagged(tag) ==
    {i \in 1 .. Len(m_objectMaterials) : m_objectMaterials[i].tag = tag}

\* the first of them
FirstMaterialTagged(tag) ==
    m_objectMaterials[CHOOSE i \in MaterialsTagged(tag) :
                          \A k \in MaterialsTagged(tag) : i <= k]

\* C13: FindMaterial(tag, out) returns true only if a material with that tag is
\* in the defined-materials list, and out then holds the five values of the
\* first such material; when no material has the tag it returns false, so
\* SetShaderMaterial sends no material uniforms for an unknown tag.
C13_FindMaterialReportsMissing ==
    [][/\ op' = "FindMaterial" =>
              /\ matRet'.ret = TRUE =>
                     /\ MaterialsTagged(matRet'.tag) # {}
                     /\ matRet'.material = MaterialValues(FirstMaterialTagged(matRet'.tag))
              /\ MaterialsTagged(matRet'.tag) = {} => matRet'.ret = FALSE
       /\ (op' = "SetShaderMaterial" /\ MaterialsTagged(matRet'.tag) = {}) =>
              sceneShader'.material = sceneShader.material]_vars

-----------------------------------------------------------------------------
(* Textures registered and destroyed *)

NextTextureFree ==
    \/ LoadTexture({"rgb", "none"}, {"desk"}, MaxLeaked)
    \/ Destroy(MaxTextureNames)

SpecTextureFree == Init /\ [][NextTextureFree]_vars

\* C14: DestroyGLTextures frees the used texture slots: after it, none of the
\* texture objects registered in slots 0 .. m_loadedTextures - 1 is still
\* allocated, and no new texture object has been created.
C14_DestroyFreesTextures ==
    [][op' = "DestroyGLTextures" =>
          /\ \A i \in 0 .. (m_loadedTextures - 1) : m_textureIDs[i].ID \notin glTextures'
          /\ glTextures' \subseteq glTextures]_vars

-----------------------------------------------------------------------------
(* The scene prepared and rendered *)

NextScene ==
    \/ Prepare(Images)
    \/ Render(RGBColors)

SpecScene == Init /\ [][NextScene]_vars

\* C15: if a CreateGLTexture call of LoadSceneTextures returns false the program
\* exits with status 1 at that call: no later texture is loaded, BindGLTextures
\* is not called, no mesh is loaded, and nothing happens afterwards (no frame
\* is rendered).
C15_ExitOnTextureFailure ==
    /\ [][(/\ op' = "PrepareScene"
            /\ memory' = "ok"
            /\ \E i \in 1 .. Len(loadRets') : loadRets'[i] = FALSE) =>
              LET n == Len(loadRets')
              IN  /\ process' = "exit(1)"
                  /\ loadRets'[n] = FALSE
                  /\ \A i \in 1 .. (n - 1) : loadRets'[i] = TRUE
                  /\ m_loadedTextures' = m_loadedTextures + (n - 1)
                  /\ boundUnits' = boundUnits
                  /\ meshes' = meshes]_vars
    /\ [][process = "exit(1)" => UNCHANGED vars]_vars

\* the third texture had one colour channel: the program exited there, with
\* two textures registered, none bound and no mesh loaded
C15_Witness ==
    /\ op = "PrepareScene"
    /\ process = "exit(1)"
    /\ loadRets = <<TRUE, TRUE, FALSE>>
    /\ m_loadedTextures = 2
    /\ Cardinality(glTextures) = 3
    /\ DOMAIN boundUnits = {}
    /\ meshes = {}

\* the colour alpha of the k-th draw call of the last frame, in hundredths
AlphaOf(k) == drawCalls[k].uniforms.objectColor[4]

\* C16: RenderScene draws objects with transparency last: within a frame every
\* draw call with a colour alpha below 1 comes after every draw call with
\* alpha equal to 1.
C16_TransparencyLast ==
    \A i, j \in 1 .. Len(drawCalls) :
        (AlphaOf(i) < 100 /\ AlphaOf(j) = 100) => j < i

\* C20: the second texture layer and the specular map are on for the desk
\* plane only: at the draw call of drawDesk bUseTexture2 and bUseSpecularMap
\* are both true, at every other draw call of a frame both are false.
C20_SecondLayerOnlyForDesk ==
    \A k \in 1 .. Len(drawCalls) :
        LET u == drawCalls[k].uniforms
        IN  IF drawCalls[k].part = "drawDesk"
            THEN u.bUseTexture2 /\ u.bUseSpecularMap
            ELSE ~u.bUseTexture2 /\ ~u.bUseSpecularMap

\* a frame after the first (the RGB light is already on at its first draw
\* call): the desk plane drawn with both flags up, the wall after it with
\* both down
C20_Witness ==
    /\ op = "RenderScene"
    /\ Len(drawCalls) = 52
    /\ drawCalls[1].part = "drawDesk"
    /\ drawCalls[1].uniforms.lightEnabled[2]
    /\ drawCalls[1].uniforms.bUseTexture2
    /\ drawCalls[1].uniforms.bUseSpecularMap
    /\ drawCalls[2].part = "drawWalls"
    /\ ~drawCalls[2].uniforms.bUseTexture2

-----------------------------------------------------------------------------
(* The cursor moving, with the mouse sensitivity scrolled and frames in between *)

NextMouse ==
    \/ MouseMove(CursorXs, CursorYs, CameraOrientations)
    \/ Scroll({0}, {-300, 300})
    \/ Frame({{}}, MaxTime, {DefaultPosition})

SpecMouse == Init /\ [][NextMouse]_vars

\* C17: the first mouse-move event passes offsets (0, 0) to the camera wherever
\* the cursor is; every later event passes ((x - lastX) x m_scalar,
\* (lastY - y) x m_scalar), (lastX, lastY) being the position of the event
\* before it; after an event gLastX / gLastY are its position, and gFirstMouse
\* is false from then on.
C17_MouseOffsets ==
    /\ [][op' = "Mouse_Position_Callback" =>
              /\ mouseOffsets' =
                     IF mouseArgs = <<>>
                     THEN <<0, 0>>
                     ELSE <<(mouseArgs'[1] - mouseArgs[1]) * m_scalar,
                            (mouseArgs[2] - mouseArgs'[2]) * m_scalar>>
              /\ gLastX' = mouseArgs'[1]
              /\ gLastY' = mouseArgs'[2]
              /\ gFirstMouse' = FALSE]_vars
    /\ [][gFirstMouse = FALSE => gFirstMouse' = FALSE]_vars

\* an event ten pixels right of and above the event before it, at four times
\* the initial sensitivity
C17_Witness ==
    /\ op = "Mouse_Position_Callback"
    /\ mouseArgs = <<510, 390>>
    /\ m_scalar = 400
    /\ mouseOffsets = <<4000, 4000>>
    /\ gLastX = 510 /\ gLastY = 390
    /\ gFirstMouse = FALSE

-----------------------------------------------------------------------------
(* The two cameras in the orthographic mode *)

\* C18: the orbit camera starts from the perspective camera's default: the
\* first frame in the orthographic mode, and every frame in which key O is
\* down, builds the orthographic view matrix with the eye at (0, 5, 12).
C18_OrthoEyeAtDefault ==
    (FrameDone /\ "O" \in keysDown) =>
        /\ shader.view.kind = "lookAt"
        /\ shader.view.eye = <<0, 5000, 12000>>

\* C19: a frame polled in the orthographic mode with key P up leaves the
\* perspective camera's Position, Front and Up as they were, whichever
\* movement keys are down.
C19_OrthoKeysLeaveCamera ==
    [][(op' = "PrepareSceneView" /\ bOrthographicProjection /\ "P" \notin keysDown') =>
          /\ camera'.Position = camera.Position
          /\ camera'.Front = camera.Front
          /\ camera'.Up = camera.Up]_vars

-----------------------------------------------------------------------------
(* Lookups of missing textures, called directly and by the frames drawn *)

NextTextureReport ==
    \/ m_loadedTextures + 2 < MaxTextures /\ LoadTexture({"rgb"}, TextureTags, MaxLeaked)
    \/ FindTexture(TextureTags \cup {"missing"})
    \/ Render({<<67, 100, 67>>})

SpecTextureReport == Init /\ [][NextTextureReport]_vars

\* C21: "Could not find texture" is printed at most once: g_errorEncountered
\* goes from false to true at the first FindTextureSlot of a tag that is not
\* registered, the tag is printed then, and the flag never goes back; a later
\* miss prints nothing; every miss returns -1, and a hit leaves the flag and
\* the output alone.
C21_MissReportedOnce ==
    /\ [][/\ Len(printed') <= 1
          /\ g_errorEncountered' <=> Len(printed') = 1
          /\ g_errorEncountered => g_errorEncountered' /\ printed' = printed]_vars
    /\ [][op' = "FindTextureSlot" =>
              IF SlotsOf(findRet'.tag) = {}
              THEN /\ findRet'.ret = -1
                   /\ g_errorEncountered'
                   /\ printed' = IF g_errorEncountered THEN printed
                                 ELSE <<findRet'.tag>>
              ELSE /\ g_errorEncountered' = g_errorEncountered
                   /\ printed' = printed]_vars

\* a second miss, of another tag: -1 again and nothing printed for it
C21_Witness ==
    /\ op = "FindTextureSlot"
    /\ findRet = [fn |-> "FindTextureSlot", tag |-> "missing", ret |-> -1]
    /\ g_errorEncountered
    /\ printed = <<"desk">>

-----------------------------------------------------------------------------
(* The lights: the scene prepared once at start-up, then frame after frame *)

\* PrepareScene has run: DefineObjectMaterials has filled the material list
Prepared == Len(m_objectMaterials) > 0

\* the program prepares the scene once, before the first frame
StartUp(images) == ~Prepared /\ Prepare(images)

\* and in every turn of its loop from then on sets up the view of a frame or
\* renders it
MainLoop(keySets, colors) ==
    /\ Prepared
    /\ \/ Running /\ Frame(keySets, MaxTime, {DefaultPosition})
       \/ Render(colors)

NextLights ==
    \/ StartUp(Images)
    \/ MainLoop({{}, {"O"}}, RGBColors)

SpecLights == Init /\ [][NextLights]_vars

\* the draw call of the tower's fan cylinder, the first after updateRGBlight
FanCylinder(draws) ==
    CHOOSE k \in 1 .. Len(draws) : draws[k].part = "drawTower" /\ draws[k].mesh = "Cylinder"

====
